---- MODULE Spec2Model ----
(***************************************************************************)
(* NEAT genome (src/NEAT/Genome.py): construction, the two structural      *)
(* mutations, crossover, gene alignment and the compatibility distance.    *)
(*                                                                         *)
(* Python objects have identity: a ConnectionGene is an entry of `heap`    *)
(* and a connection map holds references (heap indices), so that a gene    *)
(* object shared by two genomes is one heap entry.  Weights are counted in *)
(* tenths (0.5 is 5, 1.0 is 10).                                           *)
(***************************************************************************)
EXTENDS Integers, Sequences, FiniteSets, TLC

VARIABLES heap,        \* the ConnectionGene objects, by reference
          population,  \* the Genome objects constructed so far
          last,        \* the last call: its name, arguments, prior state, result
          calls        \* the number of calls made so far

vars == <<heap, population, last, calls>>

----------------------------------------------------------------------------
(* Bounds of the exploration *)

MaxCalls == 1        \* calls made on a seed population in one run
MaxMutations == 3    \* mutations of one seed genome in one run
MaxChain == 21       \* connection genes of a genome given to the distance

(* Program constants *)

SmallGenomeLimit == 20   \* Genome.py:301
c1 == 10                 \* 1.0, Genome.py:305
c2 == 10                 \* 1.0, Genome.py:306
c3 == 4                  \* 0.4, Genome.py:307
SplitWeight == 10        \* 1.0, Genome.py:118

RandomWeights == {3}     \* np.random.random(), a value of [0, 1)

----------------------------------------------------------------------------
(* Helpers *)

Max(S) == CHOOSE x \in S : \A y \in S : y <= x

Abs(x) == IF x < 0 THEN -x ELSE x

\* {**a, **b}: the later map wins on a shared key
Merge(a, b) == [x \in (DOMAIN a) \cup (DOMAIN b) |-> IF x \in DOMAIN b THEN b[x] ELSE a[x]]

RECURSIVE SumOver(_, _)
SumOver(f, S) == IF S = {} THEN 0
                 ELSE LET x == CHOOSE y \in S : TRUE IN f[x] + SumOver(f, S \ {x})

----------------------------------------------------------------------------
(* Value records and the innovation-number counter *)

NodeGene(id, type) == [id |-> id, type |-> type]

ConnectionGene(in_node, out_node, weight, enabled, innovation_number) ==
    [in_node |-> in_node, out_node |-> out_node, weight |-> weight,
     enabled |-> enabled, innovation_number |-> innovation_number]

\* The counter is seeded with the highest number already used; next_int
\* returns the next unused integer, which is also the counter's new state.
InnovationNumberGenerator(seed) == seed

next_int(generator) == generator + 1

----------------------------------------------------------------------------
(* Genome *)

input_nodes == [n \in {1, 2, 3} |-> NodeGene(n, "INPUT")]

output_nodes == [n \in {4} |-> NodeGene(n, "OUTPUT")]

\* generate_nodes that looks at the out_node of each connection only
generate_nodes_out_only(connection_genes, h) ==
    LET endpoints == {h[connection_genes[k]].out_node : k \in DOMAIN connection_genes}
        hidden == {n \in endpoints : n \notin DOMAIN input_nodes /\ n \notin DOMAIN output_nodes}
    IN [n \in hidden |-> NodeGene(n, "HIDDEN")]

generate_nodes(connection_genes, h) ==
    LET endpoints == UNION {{h[connection_genes[k]].in_node, h[connection_genes[k]].out_node} :
                                k \in DOMAIN connection_genes}
        hidden == {n \in endpoints : n \notin DOMAIN input_nodes /\ n \notin DOMAIN output_nodes}
    IN [n \in hidden |-> NodeGene(n, "HIDDEN")]

get_last_innovation_number(connection_genes) == Max(DOMAIN connection_genes)

Genome(connection_genes, fitness, h) ==
    LET hidden_nodes == generate_nodes(connection_genes, h)
    IN [connection_genes |-> connection_genes,
        hidden_nodes |-> hidden_nodes,
        nodes |-> Merge(Merge(input_nodes, hidden_nodes), output_nodes),
        innovation_number_generator |->
            InnovationNumberGenerator(get_last_innovation_number(connection_genes)),
        fitness |-> fitness]

total_nodes(self) ==
    Cardinality(DOMAIN input_nodes) + Cardinality(DOMAIN self.hidden_nodes)
        + Cardinality(DOMAIN output_nodes)

\* add_connection_mutation that looks for an existing connection in the drawn
\* direction only
add_connection_mutation_one_direction(self, h, id_1, id_2, w) ==
    LET node_1 == self.nodes[id_1]
        node_2 == self.nodes[id_2]
        reversed == \/ node_1.type = "OUTPUT" /\ node_2.type \in {"HIDDEN", "INPUT"}
                    \/ node_1.type = "HIDDEN" /\ node_2.type = "INPUT"
        connection_exists ==
            \E k \in DOMAIN self.connection_genes :
                LET connection_gene == h[self.connection_genes[k]]
                IN connection_gene.in_node = node_1.id /\ connection_gene.out_node = node_2.id
        number == next_int(self.innovation_number_generator)
        new_connection == ConnectionGene(IF reversed THEN node_2.id ELSE node_1.id,
                                         IF reversed THEN node_1.id ELSE node_2.id,
                                         w, TRUE, number)
        ref == Len(h) + 1
    IN IF connection_exists
       THEN [genome |-> self, heap |-> h]
       ELSE [genome |-> [self EXCEPT
                           !.innovation_number_generator = number,
                           !.connection_genes =
                               Merge(@, [x \in {new_connection.innovation_number} |-> ref])],
             heap |-> Append(h, new_connection)]

\* The result of a mutating call: the genome and the heap after it.
add_connection_mutation(self, h, id_1, id_2, w) ==
    LET node_1 == self.nodes[id_1]
        node_2 == self.nodes[id_2]
        reversed == \/ node_1.type = "OUTPUT" /\ node_2.type \in {"HIDDEN", "INPUT"}
                    \/ node_1.type = "HIDDEN" /\ node_2.type = "INPUT"
        connection_exists ==
            \E k \in DOMAIN self.connection_genes :
                LET connection_gene == h[self.connection_genes[k]]
                IN \/ connection_gene.in_node = node_1.id /\ connection_gene.out_node = node_2.id
                   \/ connection_gene.in_node = node_2.id /\ connection_gene.out_node = node_1.id
        number == next_int(self.innovation_number_generator)
        new_connection == ConnectionGene(IF reversed THEN node_2.id ELSE node_1.id,
                                         IF reversed THEN node_1.id ELSE node_2.id,
                                         w, TRUE, number)
        ref == Len(h) + 1
    IN IF connection_exists
       THEN [genome |-> self, heap |-> h]
       ELSE [genome |-> [self EXCEPT
                           !.innovation_number_generator = number,
                           !.connection_genes =
                               Merge(@, [x \in {new_connection.innovation_number} |-> ref])],
             heap |-> Append(h, new_connection)]

\* add_node_mutation that gives the second new connection the weight 1.0 too
add_node_mutation_unit_weights(self, h, key) ==
    LET old_ref == self.connection_genes[key]
        old_connection == h[old_ref]
        new_node == NodeGene(total_nodes(self) + 1, "HIDDEN")
        number_1 == next_int(self.innovation_number_generator)
        number_2 == next_int(number_1)
        new_connection_1 == ConnectionGene(old_connection.in_node, new_node.id, SplitWeight,
                                           TRUE, number_1)
        new_connection_2 == ConnectionGene(new_node.id, old_connection.out_node, SplitWeight,
                                           TRUE, number_2)
    IN [genome |-> [self EXCEPT
                      !.innovation_number_generator = number_2,
                      !.nodes = Merge(@, [x \in {new_node.id} |-> new_node]),
                      !.connection_genes =
                          Merge(Merge(@, [x \in {number_1} |-> Len(h) + 1]),
                                [x \in {number_2} |-> Len(h) + 2])],
        heap |-> Append(Append([h EXCEPT ![old_ref].enabled = FALSE], new_connection_1),
                        new_connection_2)]

add_node_mutation(self, h, key) ==
    LET old_ref == self.connection_genes[key]
        old_connection == h[old_ref]
        in_node == old_connection.in_node
        out_node == old_connection.out_node
        new_node == NodeGene(total_nodes(self) + 1, "HIDDEN")
        number_1 == next_int(self.innovation_number_generator)
        number_2 == next_int(number_1)
        new_connection_1 == ConnectionGene(in_node, new_node.id, SplitWeight, TRUE, number_1)
        new_connection_2 == ConnectionGene(new_node.id, out_node, old_connection.weight,
                                           TRUE, number_2)
        ref_1 == Len(h) + 1
        ref_2 == Len(h) + 2
    IN [genome |-> [self EXCEPT
                      !.innovation_number_generator = number_2,
                      !.nodes = Merge(@, [x \in {new_node.id} |-> new_node]),
                      !.connection_genes =
                          Merge(Merge(@, [x \in {new_connection_1.innovation_number} |-> ref_1]),
                                [x \in {new_connection_2.innovation_number} |-> ref_2])],
        heap |-> Append(Append([h EXCEPT ![old_ref].enabled = FALSE], new_connection_1),
                        new_connection_2)]

----------------------------------------------------------------------------
(* Crossover and gene alignment.  pick[k] is the draw                      *)
(* np.random.random() < 0.5 made for the matching gene k.                  *)

\* get_child_connections that never swaps the parents: the first one's genes
\* are taken whichever is fitter
get_child_connections_no_swap(parent_1_genome, parent_2_genome, pick) ==
    LET parent_1_connections == parent_1_genome.connection_genes
        parent_2_connections == parent_2_genome.connection_genes
        chosen(k) == IF pick[k] THEN parent_1_connections[k] ELSE parent_2_connections[k]
    IN IF parent_1_genome.fitness # parent_2_genome.fitness
       THEN [k \in DOMAIN parent_1_connections |->
                IF k \notin DOMAIN parent_2_connections
                THEN parent_1_connections[k] ELSE chosen(k)]
       ELSE [k \in (DOMAIN parent_1_connections) \cup (DOMAIN parent_2_connections) |->
                IF k \notin DOMAIN parent_2_connections THEN parent_1_connections[k]
                ELSE IF k \notin DOMAIN parent_1_connections THEN parent_2_connections[k]
                ELSE chosen(k)]

\* get_child_connections without the loop over the second parent's own genes
\* in the equal-fitness case
get_child_connections_first_only(parent_1_genome, parent_2_genome, pick) ==
    LET swap == parent_1_genome.fitness < parent_2_genome.fitness
        p1 == IF swap THEN parent_2_genome ELSE parent_1_genome
        p2 == IF swap THEN parent_1_genome ELSE parent_2_genome
        parent_1_connections == p1.connection_genes
        parent_2_connections == p2.connection_genes
    IN [k \in DOMAIN parent_1_connections |->
            IF k \notin DOMAIN parent_2_connections THEN parent_1_connections[k]
            ELSE IF pick[k] THEN parent_1_connections[k] ELSE parent_2_connections[k]]

get_child_connections(parent_1_genome, parent_2_genome, pick) ==
    LET swap == parent_1_genome.fitness < parent_2_genome.fitness
        p1 == IF swap THEN parent_2_genome ELSE parent_1_genome
        p2 == IF swap THEN parent_1_genome ELSE parent_2_genome
        parent_1_connections == p1.connection_genes
        parent_2_connections == p2.connection_genes
        chosen(k) == IF pick[k] THEN parent_1_connections[k] ELSE parent_2_connections[k]
    IN IF p1.fitness # p2.fitness
       THEN [k \in DOMAIN parent_1_connections |->
                IF k \notin DOMAIN parent_2_connections
                THEN parent_1_connections[k] ELSE chosen(k)]
       ELSE [k \in (DOMAIN parent_1_connections) \cup (DOMAIN parent_2_connections) |->
                IF k \notin DOMAIN parent_2_connections THEN parent_1_connections[k]
                ELSE IF k \notin DOMAIN parent_1_connections THEN parent_2_connections[k]
                ELSE chosen(k)]

get_matching_connections(parent_1_genome, parent_2_genome, pick) ==
    LET parent_1_connections == parent_1_genome.connection_genes
        parent_2_connections == parent_2_genome.connection_genes
    IN [k \in {x \in DOMAIN parent_1_connections : x \in DOMAIN parent_2_connections} |->
            IF pick[k] THEN parent_1_connections[k] ELSE parent_2_connections[k]]

get_disjoint_connections(parent_1_genome, parent_2_genome) ==
    LET keep == Cardinality(DOMAIN parent_1_genome.connection_genes)
                    > Cardinality(DOMAIN parent_2_genome.connection_genes)
        p1 == IF keep THEN parent_1_genome ELSE parent_2_genome
        p2 == IF keep THEN parent_2_genome ELSE parent_1_genome
        parent_1_connections == p1.connection_genes
        parent_2_connections == p2.connection_genes
        from_1 == {k \in DOMAIN parent_1_connections :
                      /\ k \notin DOMAIN parent_2_connections
                      /\ k < get_last_innovation_number(parent_2_connections)}
        from_2 == {k \in DOMAIN parent_2_connections : k \notin DOMAIN parent_1_connections}
    IN [k \in from_1 \cup from_2 |->
            IF k \in from_2 THEN parent_2_connections[k] ELSE parent_1_connections[k]]

get_excess_connections(parent_1_genome, parent_2_genome) ==
    LET keep == get_last_innovation_number(parent_1_genome.connection_genes)
                    > get_last_innovation_number(parent_2_genome.connection_genes)
        p1 == IF keep THEN parent_1_genome ELSE parent_2_genome
        p2 == IF keep THEN parent_2_genome ELSE parent_1_genome
        parent_1_connections == p1.connection_genes
    IN [k \in {x \in DOMAIN parent_1_connections :
                  x > get_last_innovation_number(p2.connection_genes)} |->
            parent_1_connections[k]]

\* W as the pair (sum of |weight differences| in tenths, number of matching genes)
get_average_weight_difference_of_matching_genes(parent_1_genome, parent_2_genome, h) ==
    LET parent_1_connections == parent_1_genome.connection_genes
        parent_2_connections == parent_2_genome.connection_genes
        matching == {k \in DOMAIN parent_1_connections : k \in DOMAIN parent_2_connections}
        diff == [k \in matching |->
                    Abs(h[parent_1_connections[k]].weight - h[parent_2_connections[k]].weight)]
    IN [weight_difference |-> SumOver(diff, matching),
        matching_connections |-> Cardinality(matching)]

Normalizer(parent_1_genome, parent_2_genome) ==
    LET len_1 == Cardinality(DOMAIN parent_1_genome.connection_genes)
        len_2 == Cardinality(DOMAIN parent_2_genome.connection_genes)
    IN IF len_1 < SmallGenomeLimit /\ len_2 < SmallGenomeLimit THEN 1
       ELSE IF len_1 > len_2 THEN len_1 ELSE len_1

\* d = ((c1 * E) + (c2 * D)) / N + (c3 * W) as the fraction num / den; the
\* division by zero matching genes raises before N is computed.
get_compatibility_distance(parent_1_genome, parent_2_genome, h) ==
    LET E == Cardinality(DOMAIN get_excess_connections(parent_1_genome, parent_2_genome))
        D == Cardinality(DOMAIN get_disjoint_connections(parent_1_genome, parent_2_genome))
        W == get_average_weight_difference_of_matching_genes(parent_1_genome, parent_2_genome, h)
        N == Normalizer(parent_1_genome, parent_2_genome)
        M == W.matching_connections
    IN IF M = 0
       THEN [raised |-> "ZeroDivisionError", E |-> E, D |-> D, N |-> 0, num |-> 0, den |-> 1]
       ELSE [raised |-> "", E |-> E, D |-> D, N |-> N,
             num |-> 10 * M * (c1 * E + c2 * D) + c3 * W.weight_difference * N,
             den |-> 100 * N * M]

----------------------------------------------------------------------------
(* The genes of the module's own test genomes (Genome.py:334-357).  A seed *)
(* genome is constructed, as there, from a dict of its own gene objects;   *)
(* the seeds hold sub-maps of the two test genomes.                        *)

parent_1_genes ==
    [i \in {1, 2, 3, 4, 5, 8} |->
        CASE i = 1 -> ConnectionGene(1, 4, 5, TRUE, 1)
          [] i = 2 -> ConnectionGene(2, 4, 5, FALSE, 2)
          [] i = 3 -> ConnectionGene(3, 4, 5, TRUE, 3)
          [] i = 4 -> ConnectionGene(2, 5, 5, TRUE, 4)
          [] i = 5 -> ConnectionGene(5, 4, 5, TRUE, 5)
          [] i = 8 -> ConnectionGene(1, 5, 5, TRUE, 8)]

parent_2_genes ==
    [i \in {1, 2, 3, 4, 5, 6, 7, 9, 10} |->
        CASE i = 1 -> ConnectionGene(1, 4, 5, TRUE, 1)
          [] i = 2 -> ConnectionGene(2, 4, 5, FALSE, 2)
          [] i = 3 -> ConnectionGene(3, 4, 5, TRUE, 3)
          [] i = 4 -> ConnectionGene(2, 5, 5, TRUE, 4)
          [] i = 5 -> ConnectionGene(5, 4, 5, FALSE, 5)
          [] i = 6 -> ConnectionGene(5, 6, 5, TRUE, 6)
          [] i = 7 -> ConnectionGene(6, 4, 5, TRUE, 7)
          [] i = 9 -> ConnectionGene(3, 5, 5, TRUE, 9)
          [] i = 10 -> ConnectionGene(1, 6, 5, TRUE, 10)]

\* Genomes of n genes numbered 1..n on distinct edges, for the distance
chain_genes(weight) ==
    [i \in 1..MaxChain |-> ConnectionGene(1 + (i % 3), 4 + (i \div 3), weight, TRUE, i)]

\* The i-th smallest element of a set of numbers
RECURSIVE Nth(_, _)
Nth(S, i) == LET m == CHOOSE x \in S : \A y \in S : x <= y
             IN IF i = 1 THEN m ELSE Nth(S \ {m}, i - 1)

\* Fresh gene objects for the keys, appended to h in key order, and the
\* connection map that refers to them.
AllocGenes(h, keys, table) ==
    LET n == Cardinality(keys)
    IN [heap |-> h \o [i \in 1..n |-> table[Nth(keys, i)]],
        connection_genes |-> [k \in keys |-> Len(h) + CHOOSE i \in 1..n : Nth(keys, i) = k]]

\* Two genomes, each constructed from its own dict of its own gene objects
TwoGenomes(table_1, keys_1, fitness_1, table_2, keys_2, fitness_2) ==
    LET a_1 == AllocGenes(<<>>, keys_1, table_1)
        a_2 == AllocGenes(a_1.heap, keys_2, table_2)
    IN [heap |-> a_2.heap,
        population |-> <<Genome(a_1.connection_genes, fitness_1, a_2.heap),
                         Genome(a_2.connection_genes, fitness_2, a_2.heap)>>]

NoCall == [op |-> "none", g |-> <<>>, pre |-> <<>>, preHeap |-> <<>>, result |-> <<>>]

Fitnesses == {0, 1}

SeedKeys == {{1}, {7}}                   \* the evolving population's seeds

MutationKeys == {{1}, {1, 3}, {1, 7}}    \* the seeds of the single mutated genome

AlignKeys == (SUBSET {1, 2, 3, 4}) \ {{}} \* the genomes given to the alignment

\* A population of two seed genomes
Init ==
    \E keys_1 \in {k \in SeedKeys : k \subseteq DOMAIN parent_1_genes}, keys_2 \in SeedKeys,
       fitness_1 \in Fitnesses :
        LET s == TwoGenomes(parent_1_genes, keys_1, fitness_1, parent_2_genes, keys_2, 0)
        IN /\ heap = s.heap
           /\ population = s.population
           /\ last = NoCall
           /\ calls = 0

\* One seed genome
InitMutation ==
    \E keys \in MutationKeys :
        LET a == AllocGenes(<<>>, keys, parent_2_genes)
        IN /\ heap = a.heap
           /\ population = <<Genome(a.connection_genes, 0, a.heap)>>
           /\ last = NoCall
           /\ calls = 0

\* Two genomes to align
InitAlign ==
    \E keys_1 \in AlignKeys, keys_2 \in AlignKeys, fitness_1 \in Fitnesses, fitness_2 \in Fitnesses :
        LET s == TwoGenomes(parent_1_genes, keys_1, fitness_1, parent_2_genes, keys_2, fitness_2)
        IN /\ heap = s.heap
           /\ population = s.population
           /\ last = NoCall
           /\ calls = 0

\* Two genomes of up to MaxChain genes
InitDistance ==
    \E n_1 \in 1..MaxChain, n_2 \in 1..MaxChain :
        LET s == TwoGenomes(chain_genes(5), 1..n_1, 0, chain_genes(3), 1..n_2, 0)
        IN /\ heap = s.heap
           /\ population = s.population
           /\ last = NoCall
           /\ calls = 0

----------------------------------------------------------------------------
(* Actions: one per call *)

Called(op, g, result) ==
    [op |-> op, g |-> g, pre |-> population, preHeap |-> heap, result |-> result]

AddConnectionMutation(g, id_1, id_2, w) ==
    LET r == add_connection_mutation(population[g], heap, id_1, id_2, w)
    IN /\ population' = [population EXCEPT ![g] = r.genome]
       /\ heap' = r.heap
       /\ last' = Called("add_connection_mutation", <<g>>, <<id_1, id_2>>)
       /\ calls' = calls + 1

AddNodeMutation(g, key) ==
    LET r == add_node_mutation(population[g], heap, key)
    IN /\ population' = [population EXCEPT ![g] = r.genome]
       /\ heap' = r.heap
       /\ last' = Called("add_node_mutation", <<g>>, <<key>>)
       /\ calls' = calls + 1

\* crossover: key is the connection the child's node mutation splits (0: the
\* draw skipped the mutation); ids is the node pair of the child's connection
\* mutation (<<>>: skipped).
crossover(parent_1_genome, parent_2_genome, h, pick, key, ids, w) ==
    LET child_connections == get_child_connections(parent_1_genome, parent_2_genome, pick)
        child_genome == [genome |-> Genome(child_connections, 0, h), heap |-> h]
        r_1 == IF key # 0 THEN add_node_mutation(child_genome.genome, child_genome.heap, key)
               ELSE child_genome
        r_2 == IF ids # <<>> THEN add_connection_mutation(r_1.genome, r_1.heap, ids[1], ids[2], w)
               ELSE r_1
    IN r_2

NodePairs(S) == {<<a, b>> : a \in S, b \in S} \ {<<a, a>> : a \in S}

Picks(i, j) ==
    [(DOMAIN population[i].connection_genes) \cap (DOMAIN population[j].connection_genes)
        -> BOOLEAN]

Crossover(i, j) ==
    \E pick \in Picks(i, j) :
        LET selected == get_child_connections(population[i], population[j], pick)
        IN \E key \in {0} \cup DOMAIN selected :
             LET nodes_then ==
                     IF key = 0 THEN DOMAIN Genome(selected, 0, heap).nodes
                     ELSE DOMAIN add_node_mutation(Genome(selected, 0, heap), heap, key).genome.nodes
             IN \E ids \in {<<>>} \cup NodePairs(nodes_then), w \in RandomWeights :
                  LET r == crossover(population[i], population[j], heap, pick, key, ids, w)
                  IN /\ population' = Append(population, r.genome)
                     /\ heap' = r.heap
                     /\ last' = Called("crossover", <<i, j>>,
                                       [selected |-> selected, key |-> key, ids |-> ids])
                     /\ calls' = calls + 1

GetChildConnections(i, j) ==
    /\ \E pick \in Picks(i, j) :
         last' = Called("get_child_connections", <<i, j>>,
                        get_child_connections(population[i], population[j], pick))
    /\ UNCHANGED <<heap, population, calls>>

GetMatchingConnections(i, j) ==
    /\ \E pick \in Picks(i, j) :
         last' = Called("get_matching_connections", <<i, j>>,
                        get_matching_connections(population[i], population[j], pick))
    /\ UNCHANGED <<heap, population, calls>>

GetDisjointConnections(i, j) ==
    /\ last' = Called("get_disjoint_connections", <<i, j>>,
                      get_disjoint_connections(population[i], population[j]))
    /\ UNCHANGED <<heap, population, calls>>

GetExcessConnections(i, j) ==
    /\ last' = Called("get_excess_connections", <<i, j>>,
                      get_excess_connections(population[i], population[j]))
    /\ UNCHANGED <<heap, population, calls>>

GetCompatibilityDistance(i, j) ==
    /\ last' = Called("get_compatibility_distance", <<i, j>>,
                      get_compatibility_distance(population[i], population[j], heap))
    /\ UNCHANGED <<heap, population, calls>>

Genomes == 1..Len(population)

\* The evolving population: mutations and crossovers, in any order
Next ==
    \/ \E g \in Genomes :
          \E ids \in NodePairs(DOMAIN population[g].nodes), w \in RandomWeights :
              calls < MaxCalls /\ AddConnectionMutation(g, ids[1], ids[2], w)
    \/ \E g \in Genomes :
          \E key \in DOMAIN population[g].connection_genes :
              calls < MaxCalls /\ AddNodeMutation(g, key)
    \/ \E i \in Genomes, j \in Genomes : calls < MaxCalls /\ Crossover(i, j)

Spec == Init /\ [][Next]_vars

\* One genome under repeated mutation
NextMutation ==
    \/ \E g \in Genomes :
          \E ids \in NodePairs(DOMAIN population[g].nodes), w \in RandomWeights :
              calls < MaxMutations /\ AddConnectionMutation(g, ids[1], ids[2], w)
    \/ \E g \in Genomes :
          \E key \in DOMAIN population[g].connection_genes :
              calls < MaxMutations /\ AddNodeMutation(g, key)

SpecMutation == InitMutation /\ [][NextMutation]_vars

\* The alignment of two genomes
NextAlign ==
    \/ \E i \in Genomes, j \in Genomes : GetChildConnections(i, j)
    \/ \E i \in Genomes, j \in Genomes : GetMatchingConnections(i, j)
    \/ \E i \in Genomes, j \in Genomes : GetDisjointConnections(i, j)
    \/ \E i \in Genomes, j \in Genomes : GetExcessConnections(i, j)

SpecAlign == InitAlign /\ [][NextAlign]_vars

\* The distance of two genomes
NextDistance == \E i \in Genomes, j \in Genomes : GetCompatibilityDistance(i, j)

SpecDistance == InitDistance /\ [][NextDistance]_vars

\* Two seed genomes, each under its own mutations
SpecLineages == Init /\ [][NextMutation]_vars

----------------------------------------------------------------------------
(* The claims.  After a call, `last` holds the call and the state before   *)
(* it, so that each effect is a predicate of one state.                    *)

Keys(genome) == DOMAIN genome.connection_genes

Gene(h, genome, k) == h[genome.connection_genes[k]]

Did(op) == last.op = op

Before(n) == last.pre[last.g[n]]       \* the n-th genome argument, before the call

After(n) == population[last.g[n]]      \* and after it

Child == population[Len(population)]   \* the genome crossover returned

EndpointsIn(genome, h) ==
    \A k \in Keys(genome) :
        /\ Gene(h, genome, k).in_node \in DOMAIN genome.nodes
        /\ Gene(h, genome, k).out_node \in DOMAIN genome.nodes

\* C1: in every genome of the population (seed, mutated, or returned by
\* crossover) both endpoints of every connection gene are keys of the genome's
\* node map.
C1_EndpointsResolve == \A g \in Genomes : EndpointsIn(population[g], heap)

\* a child of crossover that took both mutations and has a connection into a
\* hidden node
C1_Witness ==
    /\ Did("crossover")
    /\ last.result.key # 0
    /\ last.result.ids # <<>>
    /\ Cardinality(Keys(Child)) = Cardinality(DOMAIN last.result.selected) + 3
    /\ \E k \in Keys(Child) : Gene(heap, Child, k).in_node \in DOMAIN Child.hidden_nodes

\* C2: the innovation numbers that get_disjoint_connections returned for two
\* genomes, those get_matching_connections returns for them and those
\* get_excess_connections returns for them are pairwise disjoint sets whose
\* union is the union of the two genomes' innovation numbers.
C2_AlignmentPartitions ==
    Did("get_disjoint_connections") =>
        LET disjoint == DOMAIN last.result
            matching == DOMAIN get_matching_connections(Before(1), Before(2),
                                   [k \in Keys(Before(1)) \cap Keys(Before(2)) |-> TRUE])
            excess == DOMAIN get_excess_connections(Before(1), Before(2))
        IN /\ matching \cap disjoint = {}
           /\ matching \cap excess = {}
           /\ disjoint \cap excess = {}
           /\ matching \cup disjoint \cup excess = Keys(Before(1)) \cup Keys(Before(2))

EqualFitnessCrossover == Did("crossover") /\ Before(1).fitness = Before(2).fitness

\* C3, as claimed: the child crossover returns for two parents of equal
\* fitness holds exactly the union of the parents' innovation numbers.
C3_ChildIsUnion ==
    EqualFitnessCrossover => Keys(Child) = Keys(Before(1)) \cup Keys(Before(2))

\* C3, amended: for two parents of equal fitness the connection map that
\* get_child_connections selects holds exactly the union of the parents'
\* innovation numbers; the child crossover returns holds all of them, and holds
\* nothing else when neither mutation was applied to it.
C3_SelectionIsUnion ==
    EqualFitnessCrossover =>
        LET union == Keys(Before(1)) \cup Keys(Before(2))
        IN /\ DOMAIN last.result.selected = union
           /\ union \subseteq Keys(Child)
           /\ (last.result.key = 0 /\ last.result.ids = <<>>) => Keys(Child) = union

\* an equal-fitness crossover of parents that each hold a gene the other lacks,
\* with a mutated child
C3_Witness ==
    /\ EqualFitnessCrossover
    /\ Keys(Before(1)) \ Keys(Before(2)) # {}
    /\ Keys(Before(2)) \ Keys(Before(1)) # {}
    /\ last.result.key # 0

\* C4: when one parent is strictly fitter, get_child_connections returns a
\* map over exactly the fitter parent's innovation numbers, in either argument
\* order; a number the weaker parent holds too maps to one of the two parents'
\* gene objects, any other to the fitter parent's.
C4_FitterParentGenes ==
    (Did("get_child_connections") /\ Before(1).fitness # Before(2).fitness) =>
        LET fitter == IF Before(1).fitness > Before(2).fitness THEN Before(1) ELSE Before(2)
            weaker == IF Before(1).fitness > Before(2).fitness THEN Before(2) ELSE Before(1)
        IN /\ DOMAIN last.result = Keys(fitter)
           /\ \A k \in Keys(fitter) :
                IF k \in Keys(weaker)
                THEN last.result[k] \in {fitter.connection_genes[k], weaker.connection_genes[k]}
                ELSE last.result[k] = fitter.connection_genes[k]

\* the fitter parent passed second, each parent holding a gene the other lacks,
\* and a matching gene taken from the weaker parent
C4_Witness ==
    /\ Did("get_child_connections")
    /\ Before(1).fitness < Before(2).fitness
    /\ Keys(Before(1)) \ Keys(Before(2)) # {}
    /\ Keys(Before(2)) \ Keys(Before(1)) # {}
    /\ \E k \in Keys(Before(1)) \cap Keys(Before(2)) :
          last.result[k] = Before(1).connection_genes[k]

\* C5: every add_node_mutation adds exactly one node to the genome's node map.
C5_OneMoreNode ==
    Did("add_node_mutation") =>
        Cardinality(DOMAIN After(1).nodes) = Cardinality(DOMAIN Before(1).nodes) + 1

\* C6: add_node_mutation on connection c leaves every gene the genome held in
\* place, disables c without changing its endpoints or weight, and adds exactly
\* two enabled genes, numbered above every number held before: the lower one
\* from c.in_node to the new node with weight 1.0, the higher one from the new
\* node to c.out_node with c's weight.
C6_SplitsConnection ==
    Did("add_node_mutation") =>
        LET c == last.preHeap[Before(1).connection_genes[last.result[1]]]
            added == Keys(After(1)) \ Keys(Before(1))
            first == Gene(heap, After(1), CHOOSE k \in added : \A x \in added : k <= x)
            second == Gene(heap, After(1), CHOOSE k \in added : \A x \in added : x <= k)
        IN /\ Keys(Before(1)) \subseteq Keys(After(1))
           /\ Cardinality(Keys(After(1))) = Cardinality(Keys(Before(1))) + 2
           /\ \A k \in Keys(Before(1)) :
                /\ After(1).connection_genes[k] = Before(1).connection_genes[k]
                /\ Gene(heap, After(1), k) =
                      IF k = last.result[1] THEN [c EXCEPT !.enabled = FALSE]
                      ELSE Gene(last.preHeap, Before(1), k)
           /\ \A k \in added : k > Max(Keys(Before(1)))
           /\ first.innovation_number < second.innovation_number
           /\ first.enabled /\ second.enabled
           /\ first.in_node = c.in_node
           /\ first.out_node = second.in_node
           /\ first.out_node \in DOMAIN After(1).nodes
           /\ After(1).nodes[first.out_node].type = "HIDDEN"
           /\ first.weight = SplitWeight
           /\ second.out_node = c.out_node
           /\ second.weight = c.weight

\* a node mutation of an already mutated genome, splitting a connection that
\* a connection mutation added (its weight is neither 1.0 nor a seed's)
C6_Witness ==
    /\ Did("add_node_mutation")
    /\ calls >= 2
    /\ last.preHeap[Before(1).connection_genes[last.result[1]]].weight \in RandomWeights

Connected(genome, h, a, b) ==
    \E k \in Keys(genome) :
        \/ Gene(h, genome, k).in_node = a /\ Gene(h, genome, k).out_node = b
        \/ Gene(h, genome, k).in_node = b /\ Gene(h, genome, k).out_node = a

AtMostOneGenePerPair(genome, h) ==
    \A k_1 \in Keys(genome), k_2 \in Keys(genome) :
        k_1 # k_2 =>
            {Gene(h, genome, k_1).in_node, Gene(h, genome, k_1).out_node}
                # {Gene(h, genome, k_2).in_node, Gene(h, genome, k_2).out_node}

\* C7: add_connection_mutation on a drawn pair that is connected in either
\* direction changes nothing (connection map, node map, counter, genes); on any
\* other pair it adds exactly one enabled gene, between the two drawn nodes;
\* so a genome with at most one gene per unordered node pair stays so.
C7_NoSecondEdge ==
    Did("add_connection_mutation") =>
        LET a == last.result[1]
            b == last.result[2]
            added == Keys(After(1)) \ Keys(Before(1))
        IN /\ IF Connected(Before(1), last.preHeap, a, b)
              THEN After(1) = Before(1) /\ heap = last.preHeap
              ELSE /\ Keys(Before(1)) \subseteq Keys(After(1))
                   /\ Cardinality(added) = 1
                   /\ \A k \in added :
                        /\ Gene(heap, After(1), k).enabled
                        /\ {Gene(heap, After(1), k).in_node, Gene(heap, After(1), k).out_node}
                              = {a, b}
                   /\ After(1).nodes = Before(1).nodes
           /\ AtMostOneGenePerPair(Before(1), last.preHeap)
                  => AtMostOneGenePerPair(After(1), heap)

\* a draw of a pair that an earlier connection mutation connected, drawn in the
\* direction opposite to the gene's
C7_Witness ==
    /\ Did("add_connection_mutation")
    /\ calls >= 2
    /\ After(1) = Before(1)
    /\ \E k \in Keys(Before(1)) :
          /\ Gene(heap, After(1), k).weight \in RandomWeights
          /\ Gene(heap, After(1), k).in_node = last.result[2]
          /\ Gene(heap, After(1), k).out_node = last.result[1]

\* C8: the normalizer N of get_compatibility_distance is 1 when both genomes
\* have fewer than 20 connection genes, and otherwise the connection count of
\* the larger genome, in either argument order.
C8_NormalizerIsLarger ==
    (Did("get_compatibility_distance") /\ last.result.raised = "") =>
        LET len_1 == Cardinality(Keys(Before(1)))
            len_2 == Cardinality(Keys(Before(2)))
        IN last.result.N = IF len_1 < SmallGenomeLimit /\ len_2 < SmallGenomeLimit THEN 1
                           ELSE IF len_1 >= len_2 THEN len_1 ELSE len_2

\* C9: two genes with the same innovation number, in any two genomes of the
\* population, have the same in_node and the same out_node.
C9_NumberDenotesOneEdge ==
    \A g_1 \in Genomes, g_2 \in Genomes :
        \A k \in Keys(population[g_1]) \cap Keys(population[g_2]) :
            /\ Gene(heap, population[g_1], k).in_node = Gene(heap, population[g_2], k).in_node
            /\ Gene(heap, population[g_1], k).out_node = Gene(heap, population[g_2], k).out_node

\* C10: crossover leaves both parents as they were: the same genome (its
\* connection map, node map, counter) and the same fields on every gene.
C10_ParentsUnchanged ==
    Did("crossover") =>
        \A n \in {1, 2} :
            /\ After(n) = Before(n)
            /\ \A k \in Keys(Before(n)) : Gene(heap, After(n), k) = Gene(last.preHeap, Before(n), k)

====
